---- MODULE Spec2Model ----
(***************************************************************************)
(* Model of src/main.py: the image-to-catalog pipeline.                    *)
(*   analyze_image        - one extractor call under the tenacity retry    *)
(*   insert_product_info  - validation, list normalisation, INSERT         *)
(*   process_uploaded_images - one run: snapshot, walk, move, insert,      *)
(*                          commit on normal exit / rollback on exception  *)
(***************************************************************************)
EXTENDS Integers, Sequences, FiniteSets, TLC

\* ---------------------------------------------------------------- bounds
MaxStamp == 2      \* distinct clock seconds (batch timestamps) explored
MaxSegs == 2       \* longest list given to the list normalisation
MaxSegLen == 2     \* longest segment string given to the list normalisation

\* ------------------------------------------------------ program constants
StopAfterAttempt == 6

RequiredKeys ==
    {"name", "description", "category", "material", "color", "dimensions",
     "origin_source", "import_cost", "retail_price", "key_tags"}

ImageExts == {".png", ".jpg", ".jpeg", ".gif", ".webp"}

DescriptionSep == <<"\n">>
KeyTagsSep == <<",", " ">>

\* ------------------------------------------------------------ Python values
\* A value is a record with one field naming its type.
Str(s) == [str |-> s]
Num(n) == [num |-> n]
Null == [null |-> TRUE]
List(l) == [list |-> l]
Obj(f) == [obj |-> f]
\* a top-level JSON string, abstracted to the key names occurring in it
Text(m) == [text |-> m]

IsStr(v) == "str" \in DOMAIN v
IsNum(v) == "num" \in DOMAIN v
IsNull(v) == "null" \in DOMAIN v
IsList(v) == "list" \in DOMAIN v
IsObj(v) == "obj" \in DOMAIN v
IsText(v) == "text" \in DOMAIN v

EmptyDict == Obj([k \in {} |-> Null])

\* bool(v) as the `if product_info:` and `if encoded_image:` tests compute it
Truthy(v) ==
    IF IsObj(v) THEN DOMAIN v.obj # {}
    ELSE IF IsList(v) THEN Len(v.list) > 0
    ELSE IF IsStr(v) THEN Len(v.str) > 0
    ELSE IF IsText(v) THEN TRUE
    ELSE IF IsNum(v) THEN v.num # 0
    ELSE FALSE

\* ----------------------------------------------------------- str.join
\* mutant: the pieces are concatenated without the separator
RECURSIVE JoinStr_NoSep(_, _)
JoinStr_NoSep(l, sep) ==
    IF Len(l) = 0 THEN <<>> ELSE l[1].str \o JoinStr_NoSep(Tail(l), sep)

RECURSIVE JoinStr(_, _)
JoinStr(l, sep) ==
    IF Len(l) = 0 THEN <<>>
    ELSE IF Len(l) = 1 THEN l[1].str
    ELSE l[1].str \o sep \o JoinStr(Tail(l), sep)

\* ------------------------------------------------ the backend (environment)
\* The ten-field record the prompt asks for, all values plain strings/numbers:
\* two bullet lines of description, two key tags.
FullRecord ==
    [k \in RequiredKeys |->
        IF k \in {"import_cost", "retail_price"} THEN Num(5)
        ELSE IF k = "description" THEN Str(<<"a", "\n", "b">>)
        ELSE IF k = "key_tags" THEN Str(<<"t", ",", " ", "u">>)
        ELSE Str(<<"x">>)]

WithField(f, k, v) == [f EXCEPT ![k] = v]
Without(f, k) == [j \in (DOMAIN f) \ {k} |-> f[j]]

\* JSON documents the backend may answer with (the second gives the bullets
\* and the tags of the first as lists)
Bodies ==
    {Obj(FullRecord),
     Obj(WithField(WithField(FullRecord,
             "description", List(<<Str(<<"a">>), Str(<<"b">>)>>)),
             "key_tags", List(<<Str(<<"t">>), Str(<<"u">>)>>))),
     Obj(WithField(FullRecord, "description", List(<<Num(1)>>))),
     Obj(WithField(FullRecord, "dimensions", List(<<Str(<<"w">>)>>))),
     Obj([k \in {"name"} |-> Str(<<"x">>)]),
     EmptyDict,
     Num(42), Num(0), Null,
     List(<<Obj(FullRecord)>>), List(<<>>),
     Text({}), Text(RequiredKeys)}
    \cup {Obj(Without(FullRecord, k)) : k \in RequiredKeys}

NotJSON == [notjson |-> TRUE]

\* The text of a response: how it is wrapped, how it is quoted, what it holds.
\*   wrap:   "plain" | "fence_json" (```json\n...\n```) | "fence_oneline"
\*           (```json...``` without a newline) | "fence_other" (```\n...\n```)
\*   quotes: "double" | "single" ('key': 'value') | "apostrophe" (double-quoted
\*           JSON with an apostrophe inside a string value)
Responses ==
    {[kind |-> "text", wrap |-> "plain", quotes |-> "double", body |-> b] :
        b \in Bodies \cup {NotJSON}}
    \cup {[kind |-> "text", wrap |-> w, quotes |-> q, body |-> Obj(FullRecord)] :
        w \in {"plain", "fence_json", "fence_oneline", "fence_other"},
        q \in {"double", "single", "apostrophe"}}
    \cup {[kind |-> "bad_envelope", wrap |-> "plain", quotes |-> "double",
           body |-> NotJSON]}

NetError ==
    [kind |-> "net_error", wrap |-> "plain", quotes |-> "double", body |-> NotJSON]

\* A backend fails transiently on its first `fails` attempts and then answers.
Backends ==
    {[fails |-> k, response |-> r] :
        k \in 0 .. (StopAfterAttempt - 1), r \in Responses}
    \cup {[fails |-> StopAfterAttempt, response |-> NetError]}

\* what requests.post yields on attempt n
Attempt(b, n) == IF n <= b.fails THEN NetError ELSE b.response

\* ----------------------------------------------------------- analyze_image
\* Fence stripping, quote replacement and json.loads (lines 128-134):
\* the parsed document, or the exception raised.
ParseResponse(r) ==
    IF r.wrap = "fence_oneline" THEN [exc |-> "IndexError", value |-> EmptyDict]
    ELSE IF r.wrap = "fence_other" \/ r.quotes = "apostrophe" \/ r.body = NotJSON
        THEN [exc |-> "JSONDecodeError", value |-> EmptyDict]
    ELSE [exc |-> "none", value |-> r.body]

\* mutant: a network error is not caught in the body
analyze_body_Raises(r) ==
    IF r.kind = "net_error" THEN [raised |-> TRUE, value |-> EmptyDict]
    ELSE IF r.kind = "bad_envelope" \/ ParseResponse(r).exc # "none"
        THEN [raised |-> FALSE, value |-> EmptyDict]
    ELSE [raised |-> FALSE, value |-> ParseResponse(r).value]

\* The function body (lines 119-144): every exception is caught and turned
\* into an empty dict, so the body itself never raises.
analyze_body(r) ==
    IF r.kind = "net_error" THEN [raised |-> FALSE, value |-> EmptyDict]
    ELSE IF r.kind = "bad_envelope" THEN [raised |-> FALSE, value |-> EmptyDict]
    ELSE IF ParseResponse(r).exc # "none"
        THEN [raised |-> FALSE, value |-> EmptyDict]
    ELSE [raised |-> FALSE, value |-> ParseResponse(r).value]

\* The tenacity decorator (line 72): call again only when the body raised,
\* at most StopAfterAttempt times; after the last raising attempt RetryError.
RECURSIVE Retrying(_, _)
Retrying(b, n) ==
    LET res == analyze_body(Attempt(b, n))
    IN  IF ~res.raised THEN [raised |-> FALSE, value |-> res.value, attempts |-> n]
        ELSE IF n < StopAfterAttempt THEN Retrying(b, n + 1)
        ELSE [raised |-> TRUE, value |-> EmptyDict, attempts |-> n]

analyze_image(b) == Retrying(b, 1)

\* why a call cannot produce a record, as the pipeline's caller would name it
Cause(b) ==
    IF b.fails = StopAfterAttempt THEN "network"
    ELSE IF b.fails = 0 /\ b.response.kind = "text"
            /\ ParseResponse(b.response).exc # "none" THEN "unparsable"
    ELSE "other"

\* ----------------------------------------------------- insert_product_info
\* `key not in product_info` (line 164): membership, or TypeError
HasKey(v, key) ==
    IF IsObj(v) THEN key \in DOMAIN v.obj
    ELSE IF IsText(v) THEN key \in v.text
    ELSE FALSE

SupportsIn(v) == IsObj(v) \/ IsText(v) \/ IsList(v) \/ IsStr(v)

AllStrings(l) == \A i \in 1 .. Len(l) : IsStr(l[i])

\* lines 168-169: a list is joined, anything else is stored as it is
NormalizeField(v, sep) == IF IsList(v) THEN Str(JoinStr(v.list, sep)) ELSE v

\* a value sqlite3 can bind to a parameter
Bindable(v) == IsStr(v) \/ IsNum(v) \/ IsNull(v)

ImageUrls(rows) == {r.image_url : r \in rows}

\* the row without its auto-assigned id, which nothing reads
NewRow(info, description, key_tags, img_path) ==
    [name |-> info["name"],
     description |-> description,
     image_url |-> img_path,
     category |-> info["category"],
     material |-> info["material"],
     color |-> info["color"],
     dimensions |-> info["dimensions"],
     origin_source |-> info["origin_source"],
     import_cost |-> info["import_cost"],
     retail_price |-> info["retail_price"],
     key_tags |-> key_tags]

\* cursor.execute (lines 171-191): a binding error or a UNIQUE violation is a
\* sqlite3.Error, caught and logged; the table is then unchanged.
ExecuteInsert(rows, row) ==
    IF \E c \in DOMAIN row : c # "image_url" /\ ~Bindable(row[c])
        THEN rows
    ELSE IF row.image_url \in ImageUrls(rows) THEN rows
    ELSE rows \cup {row}

\* mutant: no check of the required keys, an absent key is stored as NULL
insert_product_info_NoKeyCheck(rows, v, img_path) ==
    IF ~SupportsIn(v) \/ ~IsObj(v) THEN [exc |-> "TypeError", rows |-> rows]
    ELSE LET info == [k \in RequiredKeys |->
                        IF k \in DOMAIN v.obj THEN v.obj[k] ELSE Null]
         IN  [exc |-> "none",
              rows |-> ExecuteInsert(rows,
                         NewRow(info,
                                NormalizeField(info["description"], DescriptionSep),
                                NormalizeField(info["key_tags"], KeyTagsSep),
                                img_path))]

\* The whole function: the exception that escapes it ("none" when it returns)
\* and the table afterwards.
insert_product_info(rows, v, img_path) ==
    IF ~SupportsIn(v) THEN [exc |-> "TypeError", rows |-> rows]
    ELSE IF \E key \in RequiredKeys : ~HasKey(v, key)
        THEN [exc |-> "KeyError", rows |-> rows]
    ELSE IF ~IsObj(v) THEN [exc |-> "TypeError", rows |-> rows]
    ELSE IF (IsList(v.obj["description"]) /\ ~AllStrings(v.obj["description"].list))
            \/ (IsList(v.obj["key_tags"]) /\ ~AllStrings(v.obj["key_tags"].list))
        THEN [exc |-> "TypeError", rows |-> rows]
    ELSE [exc |-> "none",
          rows |-> ExecuteInsert(rows,
                     NewRow(v.obj,
                            NormalizeField(v.obj["description"], DescriptionSep),
                            NormalizeField(v.obj["key_tags"], KeyTagsSep),
                            img_path))]

\* ------------------------------------------------------------- file system
\* A file of the upload tree: the directory os.walk reports it in, relative
\* to UPLOADS_DIR ("." is the upload root itself), and its name.
UploadFiles ==
    {[dir |-> "a", name |-> "photo", ext |-> ".jpg"],
     [dir |-> "b", name |-> "photo", ext |-> ".JPG"],
     [dir |-> ".", name |-> "notes", ext |-> ".txt"]}

NoFile == [dir |-> ".", name |-> "", ext |-> ""]

\* str.lower on the extensions in use
Lower(e) == IF e = ".JPG" THEN ".jpg" ELSE e

\* line 214
Eligible(f) == Lower(f.ext) \in ImageExts

\* lines 220-225: the destination under the batch directory
NewImagePath(batch, f) ==
    [batch |-> batch,
     dir |-> IF f.dir = "." THEN "" ELSE f.dir,
     name |-> f.name,
     ext |-> f.ext]

\* mutant: the dedup set is never filled
LoadExistingImages_Empty(rows) == {}

\* lines 200-201: the dedup set is the image_url column
LoadExistingImages(rows) == ImageUrls(rows)

\* mutant: the dedup check never finds the path
InExistingImages_Never(path, existing) == FALSE

\* line 227: `new_image_path not in existing_images`, negated
InExistingImages(path, existing) == path \in existing

\* mutant: the file is copied, not moved
UploadsAfterMove_Copy(up, f) == up

\* line 231: shutil.move takes the file out of the upload tree ...
UploadsAfterMove(up, f) == up \ {f}

\* ... and puts it at the destination
ArchiveAfterMove(arch, path) == arch \cup {path}

NoCall == [fails |-> 0, response |-> NetError]

\* ------------------------------------------------------------------- state
VARIABLES
    uploads,          \* files present under UPLOADS_DIR
    archived,         \* paths present under INVENTORY_IMAGES_DIR
    committed,        \* rows of products that are durable
    records,          \* rows of products as the open connection sees them
    now,              \* the clock, in seconds
    pc,               \* where process_uploaded_images is
    batch_dir,        \* the run's timestamp
    existing_images,  \* the run's dedup set
    todo,             \* files the walk has not reached yet
    cur,              \* the file of the current pass
    product_info,     \* what analyze_image returned for cur
    cause,            \* why the last extractor call gave no record
    outcome,          \* how the pass of cur ended
    complete,         \* files the extractor gave a ten-key record for, this run
    made,             \* inserts executed for a file since it was uploaded
    call,             \* extractor check: the backend of the call
    answer,           \* extractor check: what analyze_image returned
    norm_in,          \* normalisation check: the field and the value given
    norm_out          \* normalisation check: the string stored

pipeVars ==
    <<uploads, archived, committed, records, now, pc, batch_dir,
      existing_images, todo, cur, product_info, cause, outcome, complete, made>>
checkVars == <<call, answer, norm_in, norm_out>>
vars == <<pipeVars, checkVars>>

NoAnswer == [raised |-> FALSE, value |-> Null, attempts |-> 0]
NoNorm == [field |-> "none", value |-> List(<<>>)]

PipeInit ==
    /\ uploads = {f \in UploadFiles : ~Eligible(f)}
    /\ archived = {}
    /\ committed = {}
    /\ records = {}
    /\ now = 1
    /\ pc = "idle"
    /\ batch_dir = 0
    /\ existing_images = {}
    /\ todo = {}
    /\ cur = NoFile
    /\ product_info = Null
    /\ cause = "none"
    /\ outcome = "pending"
    /\ complete = {}
    /\ made = [f \in UploadFiles |-> 0]

CheckInit ==
    /\ call = NoCall
    /\ answer = NoAnswer
    /\ norm_in = NoNorm
    /\ norm_out = Null

Init == PipeInit /\ CheckInit

\* --------------------------------------------------------- the environment
Tick ==
    /\ pc = "idle"
    /\ now < MaxStamp
    /\ now' = now + 1
    /\ UNCHANGED <<uploads, archived, committed, records, pc, batch_dir,
                   existing_images, todo, cur, product_info, cause, outcome,
                   complete, made>>
    /\ UNCHANGED checkVars

Upload(f) ==
    /\ pc = "idle"
    /\ f \notin uploads
    /\ uploads' = uploads \cup {f}
    /\ made' = [made EXCEPT ![f] = 0]
    /\ UNCHANGED <<archived, committed, records, now, pc, batch_dir,
                   existing_images, todo, cur, product_info, cause, outcome, complete>>
    /\ UNCHANGED checkVars

\* ------------------------------------------------- process_uploaded_images
\* lines 196-207: open the connection, load the dedup set, name the batch
StartRun ==
    /\ pc = "idle"
    /\ pc' = "walk"
    /\ records' = committed
    /\ existing_images' = LoadExistingImages(committed)
    /\ batch_dir' = now
    /\ todo' = uploads
    /\ cur' = NoFile
    /\ product_info' = Null
    /\ cause' = "none"
    /\ outcome' = "pending"
    /\ complete' = {}
    /\ UNCHANGED <<uploads, archived, committed, now, made>>
    /\ UNCHANGED checkVars

\* an exception leaves the `with` block: the connection rolls back and the
\* run's locals are gone
EndRun ==
    /\ pc' = "idle"
    /\ batch_dir' = 0
    /\ existing_images' = {}
    /\ todo' = {}
    /\ cur' = NoFile
    /\ product_info' = Null
    /\ cause' = "none"
    /\ outcome' = "pending"
    /\ complete' = {}

Rollback ==
    /\ records' = committed
    /\ EndRun

\* one pass ends and the walk goes on
NextFile(o) ==
    /\ pc' = "walk"
    /\ outcome' = o
    /\ product_info' = Null

\* os.walk is top-down: the files of the upload root come first
WalkNext(f) == f \in todo /\ (f.dir = "." \/ \A g \in todo : g.dir # ".")

\* lines 212-227 and 238-241: extension, encoding, dedup check
VisitFile(f, readable) ==
    /\ pc = "walk"
    /\ WalkNext(f)
    /\ todo' = todo \ {f}
    /\ cur' = f
    /\ cause' = "none"
    /\ product_info' = Null
    /\ IF ~Eligible(f)
         THEN pc' = "walk" /\ outcome' = "not_image"
       ELSE IF ~readable
         THEN pc' = "walk" /\ outcome' = "not_encoded"
       ELSE IF InExistingImages(NewImagePath(batch_dir, f), existing_images)
         THEN pc' = "walk" /\ outcome' = "duplicate"
       ELSE pc' = "analyze" /\ outcome' = "pending"
    /\ UNCHANGED <<uploads, archived, committed, records, now, batch_dir,
                   existing_images, complete, made>>
    /\ UNCHANGED checkVars

\* a parsed record holding all ten required fields
IsComplete(v) == IsObj(v) /\ RequiredKeys \subseteq DOMAIN v.obj

\* lines 228-231 and 236-237: the extractor call, the test of its result and,
\* when it is truthy, shutil.move
Extract(b) ==
    /\ pc = "analyze"
    /\ LET res == analyze_image(b)
       IN  IF res.raised
             THEN /\ Rollback
                  /\ UNCHANGED <<uploads, archived>>
           ELSE IF Truthy(res.value)
             THEN /\ product_info' = res.value
                  /\ cause' = Cause(b)
                  /\ complete' = IF IsComplete(res.value)
                                   THEN complete \cup {cur} ELSE complete
                  /\ uploads' = UploadsAfterMove(uploads, cur)
                  /\ archived' = ArchiveAfterMove(archived,
                                                 NewImagePath(batch_dir, cur))
                  /\ pc' = "insert"
                  /\ UNCHANGED <<records, outcome, batch_dir,
                                 existing_images, todo, cur>>
           ELSE /\ NextFile("analysis_failed")
                /\ cause' = Cause(b)
                /\ UNCHANGED <<uploads, archived, records, complete,
                               batch_dir, existing_images, todo, cur>>
    /\ UNCHANGED <<committed, now, made>>
    /\ UNCHANGED checkVars

\* lines 232-235: the insert; KeyError is caught, anything else escapes
Insert ==
    /\ pc = "insert"
    /\ LET res == insert_product_info(records, product_info,
                                      NewImagePath(batch_dir, cur))
       IN  IF res.exc = "KeyError"
             THEN /\ NextFile("missing_field")
                  /\ UNCHANGED <<records, made, batch_dir, existing_images,
                                 todo, cur, cause, complete>>
           ELSE IF res.exc = "TypeError"
             THEN /\ Rollback
                  /\ UNCHANGED made
           ELSE /\ records' = res.rows
                /\ NextFile(IF res.rows # records THEN "inserted"
                            ELSE "insert_error")
                /\ made' = [made EXCEPT
                              ![cur] = IF res.rows # records THEN @ + 1 ELSE @]
                /\ UNCHANGED <<batch_dir, existing_images, todo, cur, cause,
                               complete>>
    /\ UNCHANGED <<uploads, archived, committed, now>>
    /\ UNCHANGED checkVars

\* line 242: the walk is over, the `with` block commits
FinishRun ==
    /\ pc = "walk"
    /\ todo = {}
    /\ committed' = records
    /\ EndRun
    /\ UNCHANGED <<uploads, archived, records, now, made>>
    /\ UNCHANGED checkVars

Next ==
    \/ Tick
    \/ \E f \in UploadFiles : Upload(f)
    \/ StartRun
    \/ \E f \in UploadFiles, readable \in BOOLEAN : VisitFile(f, readable)
    \/ \E b \in Backends : Extract(b)
    \/ Insert
    \/ FinishRun

Spec == Init /\ [][Next]_vars

\* ------------------------------------------ analyze_image against a backend
ExtractInit ==
    /\ PipeInit
    /\ call \in Backends
    /\ answer = NoAnswer
    /\ norm_in = NoNorm
    /\ norm_out = Null

CallAnalyze ==
    /\ answer = NoAnswer
    /\ answer' = analyze_image(call)
    /\ UNCHANGED <<call, norm_in, norm_out>>
    /\ UNCHANGED pipeVars

SpecExtract == ExtractInit /\ [][CallAnalyze]_vars

\* ------------------------------- insert_product_info on a list-valued field
DescChars == {"x", "\n"}
TagChars == {"x", ",", " "}

Strings(chars) == UNION {[1 .. m -> chars] : m \in 0 .. MaxSegLen}
StrLists(chars) ==
    UNION {[1 .. m -> {Str(c) : c \in Strings(chars)}] : m \in 0 .. MaxSegs}

NormInputs ==
    {[field |-> "description", value |-> List(l)] : l \in StrLists(DescChars)}
    \cup {[field |-> "key_tags", value |-> List(l)] : l \in StrLists(TagChars)}

ProbePath == NewImagePath(1, [dir |-> "a", name |-> "photo", ext |-> ".jpg"])

NormInit ==
    /\ PipeInit
    /\ call = NoCall
    /\ answer = NoAnswer
    /\ norm_in \in NormInputs
    /\ norm_out = Null

\* the record is inserted into an empty table and the column read back
StoreField ==
    /\ norm_out = Null
    /\ LET res == insert_product_info({},
                      Obj(WithField(FullRecord, norm_in.field, norm_in.value)),
                      ProbePath)
       IN  /\ res.exc = "none"
           /\ \E r \in res.rows : norm_out' = r[norm_in.field]
    /\ UNCHANGED <<call, answer, norm_in>>
    /\ UNCHANGED pipeVars

SpecNorm == NormInit /\ [][StoreField]_vars

\* ================================================================== claims
Dest(f) == NewImagePath(batch_dir, f)
RowsAt(rows, path) == {r \in rows : r.image_url = path}
RunEnds == pc # "idle" /\ pc' = "idle"

\* C1: for every eligible, readable file for which the extractor returned a
\* record with all ten required fields, when the run is over exactly one new
\* record has the file's destination as image reference, and the file is no
\* longer at its upload path.
C1_OneRecordPerCompleteFile ==
    [][RunEnds =>
         \A f \in complete :
            /\ Cardinality(RowsAt(records', Dest(f))) = 1
            /\ Dest(f) \notin existing_images
            /\ f \notin uploads']_vars

\* C2: against a backend that fails on its first k attempts, 0 <= k <= 5, and
\* then answers with a record that parses, one call of analyze_image returns
\* that record, which is non-empty.
C2_RetriesUntilSuccess ==
    (/\ answer # NoAnswer
     /\ call.fails <= StopAfterAttempt - 1
     /\ call.response.kind = "text"
     /\ ParseResponse(call.response).exc = "none"
     /\ IsObj(call.response.body)
     /\ Truthy(call.response.body))
    => (/\ ~answer.raised
        /\ answer.value = call.response.body
        /\ Truthy(answer.value))

\* C3: no outcome of one file's pass aborts the run: a run ends only from the
\* walk, with every file of the upload tree visited.
C3_RunNeverAborts ==
    [][RunEnds => pc = "walk" /\ todo = {}]_vars

\* C4: when the extractor returned a non-empty record that lacks a required
\* key, the file has been moved to its destination and the insert adds no
\* row (and moves nothing back).
C4_MissingFieldNoRow ==
    [][(pc = "insert" /\ IsObj(product_info) /\ ~IsComplete(product_info)) =>
         /\ cur \notin uploads /\ Dest(cur) \in archived
         /\ records' = records
         /\ RowsAt(records', Dest(cur)) = {}
         /\ uploads' = uploads /\ archived' = archived
         /\ pc' = "walk" /\ outcome' = "missing_field"]_vars

C4_Witness ==
    /\ outcome = "missing_field"
    /\ cur \notin uploads
    /\ Dest(cur) \in archived
    /\ RowsAt(records, Dest(cur)) = {}

\* C5: over any sequence of runs no two records share an image reference,
\* an uploaded file yields at most one record, and an insert is never
\* attempted for a reference the store already holds.
C5_NoDuplicateRecords ==
    /\ \A r1, r2 \in records : r1.image_url = r2.image_url => r1 = r2
    /\ \A f \in UploadFiles : made[f] <= 1
    /\ pc = "insert" => Dest(cur) \notin ImageUrls(records)

C5_Witness ==
    /\ outcome = "duplicate"
    /\ cur \in uploads
    /\ Dest(cur) \in ImageUrls(records)
    /\ made[cur] = 0

\* str.split(sep) with a separator: the pieces between its occurrences, found
\* left to right without overlap
FindStr(s, sep) ==
    LET hits == {i \in 1 .. (Len(s) - Len(sep) + 1) :
                    SubSeq(s, i, i + Len(sep) - 1) = sep}
    IN  IF hits = {} THEN 0 ELSE CHOOSE i \in hits : \A j \in hits : i <= j

RECURSIVE SplitStr(_, _)
SplitStr(s, sep) ==
    LET i == FindStr(s, sep)
    IN  IF i = 0 THEN <<s>>
        ELSE <<SubSeq(s, 1, i - 1)>>
             \o SplitStr(SubSeq(s, i + Len(sep), Len(s)), sep)

\* the delimiter the claim names for each field
ClaimSep(field) == IF field = "description" THEN <<"\n">> ELSE <<",", " ">>

Segments(l) == [i \in 1 .. Len(l) |-> l[i].str]
Stored == norm_out # Null

\* C6 as stated: for every list of N >= 0 strings given as description or
\* key_tags, splitting the stored string on the join delimiter yields exactly
\* N segments.
C6_SplitCountAnyList ==
    Stored =>
        Len(SplitStr(norm_out.str, ClaimSep(norm_in.field)))
            = Len(norm_in.value.list)

\* C6 as amended: for every list of N >= 1 strings none of which contains the
\* join delimiter, splitting the stored string on the delimiter yields the N
\* original segments.
C6_SplitRecoversSegments ==
    (/\ Stored
     /\ Len(norm_in.value.list) >= 1
     /\ \A i \in 1 .. Len(norm_in.value.list) :
           FindStr(norm_in.value.list[i].str, ClaimSep(norm_in.field)) = 0)
    => (/\ IsStr(norm_out)
        /\ SplitStr(norm_out.str, ClaimSep(norm_in.field))
              = Segments(norm_in.value.list))

C6_Witness ==
    /\ Stored
    /\ norm_in.field = "key_tags"
    /\ Len(norm_in.value.list) = 2
    /\ norm_in.value.list[1].str = <<"x", ",">>
    /\ norm_in.value.list[2].str = <<" ", "x">>
    /\ Len(SplitStr(norm_out.str, ClaimSep("key_tags"))) = 2

\* C7: a record, once inserted, is never updated or deleted: every row of
\* the table is still there, unchanged, after every step, also when the run
\* ends on an unhandled error.
C7_RecordsNeverRemoved ==
    [][records \subseteq records']_vars

\* C8: when extraction fails (every attempt a network error, or a response
\* that does not parse) analyze_image returns an empty result and does not
\* raise; the file stays at its upload path, nothing is moved and no row is
\* written, and the walk of the next run includes the file.
C8_FailedExtractionLeavesFile ==
    /\ [][pc = "analyze" =>
            /\ pc' # "idle"
            /\ (cause' \in {"network", "unparsable"} =>
                  /\ outcome' = "analysis_failed" /\ pc' = "walk"
                  /\ cur \in uploads'
                  /\ UNCHANGED <<uploads, archived, records, committed>>)]_vars
    /\ [][(pc = "idle" /\ pc' = "walk") => todo' = uploads]_vars
    /\ [](outcome = "analysis_failed" => cur \in uploads)

C8_Witness ==
    /\ outcome = "analysis_failed"
    /\ cause = "network"
    /\ cur \in uploads
    /\ Dest(cur) \notin ImageUrls(records)

\* C9 as stated: every reference inserted in a run is in the run's dedup set
\* for the rest of the run.
C9_InsertedReferenceTracked ==
    pc # "idle" => ImageUrls(records) \subseteq existing_images

\* C9 as amended: the dedup set is loaded once, at the start of the run, and
\* stays what the store held then; a reference inserted during the run is
\* not added to it.
C9_DedupSetIsStartSnapshot ==
    pc # "idle" =>
        /\ existing_images = ImageUrls(committed)
        /\ (ImageUrls(records) \ ImageUrls(committed)) \cap existing_images = {}

C9_Witness ==
    /\ outcome = "inserted"
    /\ existing_images # {}
    /\ Dest(cur) \in ImageUrls(records)
    /\ Dest(cur) \notin existing_images

\* C10: every record's image reference is a path the file was moved to
\* before the insert: when the insert is reached the file has left the
\* upload tree and is at the destination.
C10_MoveBeforeInsert ==
    /\ \A r \in records : r.image_url \in archived
    /\ pc = "insert" => (cur \notin uploads /\ Dest(cur) \in archived)

\* a relocated file without a record, next to a record whose file was moved
C10_Witness ==
    /\ outcome = "inserted"
    /\ Dest(cur) \in ImageUrls(records)
    /\ Dest(cur) \in archived
    /\ cur \notin uploads
    /\ \E p \in archived : p \notin ImageUrls(records)

====
